---- MODULE Spec2Model ----
(***************************************************************************)
(* Chain topology of the pendulum toy (src/main.py, class MyView).         *)
(*                                                                         *)
(* Sprites are numbered: 0 is center_pin, 1.. are the balls in the order  *)
(* create_ball made them.  A pymunk body is identified with the number of  *)
(* the sprite it belongs to.  A PinJoint is identified with its position   *)
(* in the sequence of all joints ever constructed (joints), so that every  *)
(* call of join_balls yields a new object.                                 *)
(*                                                                         *)
(* Every event handler runs to its end or raises; an exception that        *)
(* leaves a handler ends the program (crashed) with the assignments made   *)
(* before the raise in place.  Library calls raise where their arguments   *)
(* make them raise: SpriteList.index of a sprite that is not in the list,  *)
(* Space.remove of None or of a constraint that is not in the space.       *)
(*                                                                         *)
(* Spec runs the press and release handlers, which are all that touch the  *)
(* chain and the joints.  SpecView runs every handler of the view (also    *)
(* motion, scroll, key release and update) for MaxEvents input events.     *)
(* The physics solver is outside the program: a step may put every dynamic *)
(* body of the engine at any point, after which each non-static sprite     *)
(* takes its body's position and gets pymunk_moved.                        *)
(***************************************************************************)
EXTENDS Integers, Sequences, FiniteSets, TLC

VARIABLES constructed, crashed, balls, sprites, constraint, joints, space,
          attached, attached_sprite, ev, grab, appended,
          current_ball_mass, running, mass, position, body_position, cursor,
          traces, clock

vars == <<constructed, crashed, balls, sprites, constraint, joints, space,
          attached, attached_sprite, ev, grab, appended,
          current_ball_mass, running, mass, position, body_position, cursor,
          traces, clock>>

\* what the press and release handlers leave alone, but for the new ball of a
\* right press and the collision detector
physical == <<current_ball_mass, running, mass, position, body_position, traces>>

\* Bounds of the model: ball objects ever created, joints ever constructed,
\* input events of one run of SpecView, entries of one trace (TRACE_LENGTH,
\* 4000 in the program, scaled down).
MaxBalls == 4
MaxJoints == 6
MaxEvents == 4
TraceLen == 3

None == -1
center_pin == 0

\* ball_masses = [10, 15, 20]: the constructor's batch has three balls
InitialBalls == 3
ball_masses == <<10, 15, 20>>
ball_positions == <<"p500", "p600", "p650">>

\* self.current_ball_mass at construction
InitialMass == 10

\* Positions are tokens: the handlers copy and store them and never compute
\* with them.  Points are the places an input event or a physics step can
\* name; which sprites the collision detector hits there is left open.
Points == {"here", "there"}
ScrollY == {-12, -1, 1}
Symbols == {"SPACE", "ENTER"}

\* [position]*TRACE_LENGTH
Repeat(p) == [i \in 1..TraceLen |-> p]

\* Ball.__init__(mass, physics_engine, position): the attributes of a new ball
Ball(m, p) == [mass |-> m, position |-> p, traces |-> Repeat(p)]

\* pymunk_moved without the slice [1:]
pymunk_moved_Grow(trace, p) == trace \o <<p>>

\* Ball.pymunk_moved: self.traces = self.traces[1:] + [self.position]
pymunk_moved(trace, p) == Tail(trace) \o <<p>>

\* a function with one more argument
Extend(f, x, v) == [n \in (DOMAIN f) \cup {x} |-> IF n = x THEN v ELSE f[n]]

\* Scrolled without the max
Scrolled_NoClamp(m, scroll_y) == m + scroll_y

\* on_mouse_scroll: += scroll_y, then max(.., 1)
Scrolled(m, scroll_y) == LET m1 == m + scroll_y IN IF m1 >= 1 THEN m1 ELSE 1

----------------------------------------------------------------------------
\* Python list helpers (0-based, negative indices count from the end)

Range(s) == {s[i] : i \in 1..Len(s)}

PyAt(s, i) == IF i < 0 THEN s[Len(s) + 1 + i] ELSE s[i + 1]

PyIndex(s, x) == (CHOOSE i \in 1..Len(s) : s[i] = x /\ \A j \in 1..(i-1) : s[j] # x) - 1

PyRemove(s, x) == LET i == PyIndex(s, x) + 1 IN SubSeq(s, 1, i - 1) \o SubSeq(s, i + 1, Len(s))

----------------------------------------------------------------------------
\* The mutable objects a handler works on, as one record

World == [balls |-> balls, sprites |-> sprites, constraint |-> constraint,
          joints |-> joints, space |-> space, crashed |-> crashed]

Raise(w) == [w EXCEPT !.crashed = TRUE]

\* pymunk.Space.remove(constraint)
SpaceRemove(w, c) ==
    IF w.crashed THEN w
    ELSE IF c = None \/ c \notin w.space THEN Raise(w)
    ELSE [w EXCEPT !.space = @ \ {c}]

\* join_balls that stores the joint on ball_b
join_balls_OnB(w, ball_a, ball_b) ==
    IF w.crashed THEN w
    ELSE LET c == Len(w.joints) + 1 IN
         [w EXCEPT !.joints = Append(@, [a |-> ball_a, b |-> ball_b]),
                   !.constraint = [@ EXCEPT ![ball_b] = c],
                   !.space = @ \cup {c}]

\* MyView.join_balls(ball_a, ball_b): ball_b is a Ball or a Body, here the
\* number of either.  The joint is stored on ball_a.  ball_a is always a
\* sprite of self.balls, so get_physics_object finds it; PinJoint and
\* Space.add take any two bodies, also the body of a removed sprite.
join_balls(w, ball_a, ball_b) ==
    IF w.crashed THEN w
    ELSE LET c == Len(w.joints) + 1 IN
         [w EXCEPT !.joints = Append(@, [a |-> ball_a, b |-> ball_b]),
                   !.constraint = [@ EXCEPT ![ball_a] = c],
                   !.space = @ \cup {c}]

\* MyView.create_ball: Ball.__init__ adds the sprite to the physics engine,
\* then the ball is appended to self.balls
create_ball(w) ==
    LET ball == Cardinality(DOMAIN w.constraint) IN
    [w EXCEPT !.constraint = [n \in (DOMAIN @) \cup {ball} |-> IF n = ball THEN None ELSE @[n]],
              !.sprites = @ \cup {ball},
              !.balls = Append(@, ball)]

RECURSIVE JoinChain(_, _, _)
\* the loop of create_balls over self.balls, from position i on
JoinChain(w, last_ball, i) ==
    IF i > Len(w.balls) THEN w
    ELSE IF w.balls[i] = center_pin THEN JoinChain(w, last_ball, i + 1)
    ELSE JoinChain(join_balls(w, last_ball, w.balls[i]), w.balls[i], i + 1)

RECURSIVE CreateN(_, _)
CreateN(w, n) == IF n = 0 THEN w ELSE CreateN(create_ball(w), n - 1)

\* MyView.create_balls(masses, positions) for n = len(masses)
create_balls(w, n) == JoinChain(CreateN(w, n), center_pin, 1)

----------------------------------------------------------------------------
\* a right press that puts the new ball before the last one
PressRight_Splice(w) ==
    LET w1 == create_ball(w)
        n  == Len(w1.balls)
        w2 == [w1 EXCEPT !.balls = SubSeq(@, 1, n - 2) \o <<@[n], @[n - 1]>>]
    IN join_balls(w2, PyAt(w2.balls, -2), PyAt(w2.balls, -1))

\* on_mouse_press, right button
PressRight(w) ==
    LET w1 == create_ball(w) IN
    join_balls(w1, PyAt(w1.balls, -2), PyAt(w1.balls, -1))

\* PressMiddle without the bridging call of join_balls
PressMiddle_NoBridge(w, clicked) ==
    IF clicked = None THEN w
    ELSE LET index == PyIndex(w.balls, clicked) IN
         IF index = 0 THEN w
         ELSE LET c  == w.constraint[clicked]
                  w1 == IF c # None THEN SpaceRemove(w, c) ELSE w
              IN IF w1.crashed THEN w1
                 ELSE [w1 EXCEPT !.balls = PyRemove(@, clicked),
                                 !.sprites = @ \ {clicked}]

\* PressMiddle without the test `index != 0`
PressMiddle_NoAnchorTest(w, clicked) ==
    IF clicked = None THEN w
    ELSE LET index == PyIndex(w.balls, clicked)
             c  == w.constraint[clicked]
             w1 == IF c # None
                   THEN SpaceRemove(join_balls(w, PyAt(w.balls, index - 1), w.joints[c].b), c)
                   ELSE w
         IN IF w1.crashed THEN w1
            ELSE [w1 EXCEPT !.balls = PyRemove(@, clicked),
                            !.sprites = @ \ {clicked}]

\* on_mouse_press, middle button; clicked is clicked_sprite[0] or None when
\* the collision list is empty
PressMiddle(w, clicked) ==
    IF clicked = None THEN w
    ELSE LET index == PyIndex(w.balls, clicked) IN
         IF index = 0 THEN w
         ELSE LET c  == w.constraint[clicked]
                  w1 == IF c # None
                        THEN SpaceRemove(join_balls(w, PyAt(w.balls, index - 1), w.joints[c].b), c)
                        ELSE w
              IN IF w1.crashed THEN w1
                 ELSE [w1 EXCEPT !.balls = PyRemove(@, clicked),
                                 !.sprites = @ \ {clicked}]

\* Reattach that removes the predecessor's joint and does not make it anew
Reattach_NoPrev(w, sprite) ==
    IF sprite \notin Range(w.balls) THEN Raise(w)
    ELSE LET index         == PyIndex(w.balls, sprite)
             previous_ball == PyAt(w.balls, index - 1)
             w2 == SpaceRemove(w, w.constraint[previous_ball])
             next_constraint == w2.constraint[sprite]
         IN IF w2.crashed \/ next_constraint = None THEN w2
            ELSE join_balls(SpaceRemove(w2, next_constraint), sprite, w2.joints[next_constraint].b)

\* Reattach that removes the dragged ball's own joint and does not make it anew
Reattach_DropNext(w, sprite) ==
    IF sprite \notin Range(w.balls) THEN Raise(w)
    ELSE LET index         == PyIndex(w.balls, sprite)
             previous_ball == PyAt(w.balls, index - 1)
             w1 == SpaceRemove(w, w.constraint[previous_ball])
             w2 == join_balls(w1, previous_ball, sprite)
             next_constraint == w2.constraint[sprite]
         IN IF w2.crashed \/ next_constraint = None THEN w2
            ELSE SpaceRemove(w2, next_constraint)

\* on_mouse_release, the body of `if self.attached is not None`, up to the
\* two assignments of None
Reattach(w, sprite) ==
    IF sprite \notin Range(w.balls) THEN Raise(w)
    ELSE LET index         == PyIndex(w.balls, sprite)
             previous_ball == PyAt(w.balls, index - 1)
             w1 == SpaceRemove(w, w.constraint[previous_ball])
             w2 == join_balls(w1, previous_ball, sprite)
             next_constraint == w2.constraint[sprite]
         IN IF w2.crashed \/ next_constraint = None THEN w2
            ELSE join_balls(SpaceRemove(w2, next_constraint), sprite, w2.joints[next_constraint].b)

----------------------------------------------------------------------------
\* The set of endpoint pairs of the joints in the space
Pairs(js, sp) == {<<js[c].a, js[c].b>> : c \in sp}

Install(w) ==
    /\ balls' = w.balls
    /\ sprites' = w.sprites
    /\ constraint' = w.constraint
    /\ joints' = w.joints
    /\ space' = w.space
    /\ crashed' = w.crashed

\* appended counts the balls appended since the chain was the anchor alone
AfterOther(w) == IF ~w.crashed /\ Len(w.balls) = 1 THEN 0 ELSE None

Init ==
    /\ constructed = FALSE
    /\ crashed = FALSE
    /\ balls = <<center_pin>>
    /\ sprites = {center_pin}
    /\ constraint = [n \in {center_pin} |-> None]
    /\ joints = <<>>
    /\ space = {}
    /\ attached = None
    /\ attached_sprite = None
    /\ ev = [kind |-> "init", clicked |-> None, index |-> None, joins |-> 0, last |-> FALSE, clean |-> FALSE, arg |-> None, stepped |-> FALSE]
    /\ grab = [on |-> FALSE]
    /\ appended = 0
    /\ current_ball_mass = InitialMass
    /\ running = FALSE
    /\ mass = [n \in {center_pin} |-> 1]
    /\ position = [n \in {center_pin} |-> "center"]
    /\ body_position = [n \in {center_pin} |-> "center"]
    /\ cursor = "origin"
    /\ traces = [n \in {center_pin} |-> Repeat("center")]
    /\ clock = 0

\* MyView.__init__, lines 62-64
Construct ==
    /\ ~constructed
    /\ constructed' = TRUE
    /\ Install(create_balls(World, InitialBalls))
    /\ ev' = [kind |-> "create_balls", clicked |-> None, index |-> None, joins |-> InitialBalls, last |-> FALSE, clean |-> FALSE, arg |-> None, stepped |-> FALSE]
    /\ appended' = InitialBalls
    /\ LET new(n) == Ball(ball_masses[n], ball_positions[n]) IN
       /\ mass' = [n \in 0..InitialBalls |-> IF n = center_pin THEN mass[n] ELSE new(n).mass]
       /\ position' = [n \in 0..InitialBalls |-> IF n = center_pin THEN position[n] ELSE new(n).position]
       /\ body_position' = [n \in 0..InitialBalls |-> IF n = center_pin THEN body_position[n] ELSE new(n).position]
       /\ traces' = [n \in 0..InitialBalls |-> IF n = center_pin THEN traces[n] ELSE new(n).traces]
    /\ UNCHANGED <<attached, attached_sprite, grab, current_ball_mass, running, cursor>>

Live == constructed /\ ~crashed

\* a left press that takes the joint to the predecessor out of the space
on_mouse_press_left_Detach(clicked) ==
    /\ Live
    /\ IF clicked # None
       THEN /\ attached' = clicked
            /\ attached_sprite' = clicked
            /\ grab' = [on |-> TRUE, node |-> clicked, balls |-> balls,
                        pairs |-> Pairs(joints, space), clean |-> TRUE]
            /\ space' = space \ {constraint[PyAt(balls, PyIndex(balls, clicked) - 1)]}
       ELSE UNCHANGED <<attached, attached_sprite, grab, space>>
    /\ ev' = [kind |-> "left", clicked |-> clicked,
              index |-> IF clicked = None THEN None ELSE PyIndex(balls, clicked),
              joins |-> 0, last |-> FALSE, clean |-> FALSE, arg |-> None, stepped |-> FALSE]
    /\ appended' = AfterOther(World)
    /\ \E p \in Points : cursor' = p
    /\ UNCHANGED <<constructed, crashed, balls, sprites, constraint, joints>>
    /\ UNCHANGED physical

\* on_mouse_press(button = LEFT): clicked is clicked_sprites[0], any of the
\* sprites under the cursor, or None when there is none
on_mouse_press_left(clicked) ==
    /\ Live
    /\ IF clicked # None
       THEN /\ attached' = clicked
            /\ attached_sprite' = clicked
            /\ grab' = [on |-> TRUE, node |-> clicked, balls |-> balls,
                        pairs |-> Pairs(joints, space), clean |-> TRUE]
       ELSE UNCHANGED <<attached, attached_sprite, grab>>
    /\ ev' = [kind |-> "left", clicked |-> clicked,
              index |-> IF clicked = None THEN None ELSE PyIndex(balls, clicked),
              joins |-> 0, last |-> FALSE, clean |-> FALSE, arg |-> None, stepped |-> FALSE]
    /\ appended' = AfterOther(World)
    /\ \E p \in Points : cursor' = p
    /\ UNCHANGED <<constructed, crashed, balls, sprites, constraint, joints, space>>
    /\ UNCHANGED physical

\* on_mouse_press(button = RIGHT)
on_mouse_press_right ==
    /\ Live
    /\ Cardinality(DOMAIN constraint) <= MaxBalls
    /\ Len(joints) < MaxJoints
    /\ Install(PressRight(World))
    /\ ev' = [kind |-> "right", clicked |-> None, index |-> None, joins |-> 1, last |-> FALSE, clean |-> FALSE, arg |-> None, stepped |-> FALSE]
    /\ appended' = IF appended = None THEN None ELSE appended + 1
    /\ grab' = IF grab.on THEN [grab EXCEPT !.clean = FALSE] ELSE grab
    /\ \E p \in Points :
          LET ball == Cardinality(DOMAIN constraint)
              new  == Ball(current_ball_mass, p)
          IN /\ mass' = Extend(mass, ball, new.mass)
             /\ position' = Extend(position, ball, new.position)
             /\ body_position' = Extend(body_position, ball, new.position)
             /\ traces' = Extend(traces, ball, new.traces)
    /\ UNCHANGED <<constructed, attached, attached_sprite, current_ball_mass, running, cursor>>

\* on_mouse_press(button = MIDDLE)
on_mouse_press_middle(clicked) ==
    /\ Live
    /\ LET w == PressMiddle(World, clicked) IN
       /\ Len(w.joints) <= MaxJoints
       /\ Install(w)
       /\ ev' = [kind |-> "middle", clicked |-> clicked,
                 index |-> IF clicked = None THEN None ELSE PyIndex(balls, clicked),
                 joins |-> Len(w.joints) - Len(joints),
                 last |-> clicked # None /\ clicked = PyAt(balls, -1),
                 clean |-> FALSE, arg |-> None, stepped |-> FALSE]
       /\ appended' = AfterOther(w)
       /\ grab' = IF grab.on /\ w.balls # balls THEN [grab EXCEPT !.clean = FALSE] ELSE grab
    /\ \E p \in Points : cursor' = p
    /\ UNCHANGED <<constructed, attached, attached_sprite>>
    /\ UNCHANGED physical

\* on_mouse_release that leaves attached_sprite set
on_mouse_release_KeepSprite ==
    /\ Live
    /\ IF attached # None
       THEN LET w == Reattach(World, attached_sprite) IN
            /\ Len(w.joints) <= MaxJoints
            /\ Install(w)
            /\ attached' = IF w.crashed THEN attached ELSE None
            /\ attached_sprite' = attached_sprite
            /\ ev' = [kind |-> "release", clicked |-> attached_sprite,
                      index |-> IF attached_sprite \in Range(balls) THEN PyIndex(balls, attached_sprite) ELSE None,
                      joins |-> Len(w.joints) - Len(joints), last |-> FALSE,
                      clean |-> grab.on /\ grab.clean, arg |-> None, stepped |-> FALSE]
            /\ appended' = AfterOther(w)
       ELSE /\ UNCHANGED <<balls, sprites, constraint, joints, space, crashed, attached, attached_sprite>>
            /\ ev' = [kind |-> "release", clicked |-> None, index |-> None, joins |-> 0, last |-> FALSE, clean |-> FALSE, arg |-> None, stepped |-> FALSE]
            /\ appended' = AfterOther(World)
    /\ grab' = IF crashed' THEN grab ELSE [on |-> FALSE]
    /\ UNCHANGED <<constructed, cursor>>
    /\ UNCHANGED physical

\* on_mouse_release (any button)
on_mouse_release ==
    /\ Live
    /\ IF attached # None
       THEN LET w == Reattach(World, attached_sprite) IN
            /\ Len(w.joints) <= MaxJoints
            /\ Install(w)
            /\ attached' = IF w.crashed THEN attached ELSE None
            /\ attached_sprite' = IF w.crashed THEN attached_sprite ELSE None
            /\ ev' = [kind |-> "release", clicked |-> attached_sprite,
                      index |-> IF attached_sprite \in Range(balls) THEN PyIndex(balls, attached_sprite) ELSE None,
                      joins |-> Len(w.joints) - Len(joints), last |-> FALSE,
                      clean |-> grab.on /\ grab.clean, arg |-> None, stepped |-> FALSE]
            /\ appended' = AfterOther(w)
       ELSE /\ UNCHANGED <<balls, sprites, constraint, joints, space, crashed, attached, attached_sprite>>
            /\ ev' = [kind |-> "release", clicked |-> None, index |-> None, joins |-> 0, last |-> FALSE, clean |-> FALSE, arg |-> None, stepped |-> FALSE]
            /\ appended' = AfterOther(World)
    /\ grab' = IF crashed' THEN grab ELSE [on |-> FALSE]
    /\ UNCHANGED <<constructed, cursor>>
    /\ UNCHANGED physical

\* on_mouse_motion(x, y, dx, dy)
on_mouse_motion(p) ==
    /\ Live
    /\ cursor' = p
    /\ position' = IF attached_sprite # None THEN [position EXCEPT ![attached_sprite] = p] ELSE position
    /\ ev' = [kind |-> "motion", clicked |-> None, index |-> None, joins |-> 0, last |-> FALSE, clean |-> FALSE, arg |-> p, stepped |-> FALSE]
    /\ appended' = AfterOther(World)
    /\ UNCHANGED <<constructed, crashed, balls, sprites, constraint, joints, space,
                   attached, attached_sprite, grab,
                   current_ball_mass, running, mass, body_position, traces>>

\* on_mouse_scroll(x, y, scroll_x, scroll_y)
on_mouse_scroll(scroll_y) ==
    /\ Live
    /\ current_ball_mass' = Scrolled(current_ball_mass, scroll_y)
    /\ ev' = [kind |-> "scroll", clicked |-> None, index |-> None, joins |-> 0, last |-> FALSE, clean |-> FALSE, arg |-> scroll_y, stepped |-> FALSE]
    /\ appended' = AfterOther(World)
    /\ UNCHANGED <<constructed, crashed, balls, sprites, constraint, joints, space,
                   attached, attached_sprite, grab,
                   running, mass, position, body_position, cursor, traces>>

\* on_key_release that toggles on any key
on_key_release_AnyKey(symbol) ==
    /\ Live
    /\ running' = ~running
    /\ ev' = [kind |-> "key", clicked |-> None, index |-> None, joins |-> 0, last |-> FALSE, clean |-> FALSE, arg |-> symbol, stepped |-> FALSE]
    /\ appended' = AfterOther(World)
    /\ UNCHANGED <<constructed, crashed, balls, sprites, constraint, joints, space,
                   attached, attached_sprite, grab,
                   current_ball_mass, mass, position, body_position, cursor, traces>>

\* on_key_release(_symbol, _modifiers)
on_key_release(symbol) ==
    /\ Live
    /\ running' = IF symbol = "SPACE" THEN ~running ELSE running
    /\ ev' = [kind |-> "key", clicked |-> None, index |-> None, joins |-> 0, last |-> FALSE, clean |-> FALSE, arg |-> symbol, stepped |-> FALSE]
    /\ appended' = AfterOther(World)
    /\ UNCHANGED <<constructed, crashed, balls, sprites, constraint, joints, space,
                   attached, attached_sprite, grab,
                   current_ball_mass, mass, position, body_position, cursor, traces>>

\* the bodies after `self.attached.position = self.col_detector.position`
Carried(bp) == IF attached # None THEN [bp EXCEPT ![attached] = cursor] ELSE bp

\* PymunkPhysicsEngine.step: the space moves the dynamic bodies it holds to
\* where the solver puts them (moved), then every non-static sprite of the
\* engine takes the position of its body and is told pymunk_moved
Stepped(bp, moved) == [n \in DOMAIN bp |-> IF n \in DOMAIN moved THEN moved[n] ELSE bp[n]]

\* on_update(delta_time)
on_update ==
    /\ Live
    /\ IF running
       THEN \E moved \in [sprites \ {center_pin} -> Points] :
              /\ body_position' = Stepped(Carried(body_position), moved)
              /\ position' = [n \in DOMAIN position |->
                                IF n \in DOMAIN moved THEN body_position'[n] ELSE position[n]]
              /\ traces' = [n \in DOMAIN traces |->
                                IF n \in DOMAIN moved THEN pymunk_moved(traces[n], position'[n]) ELSE traces[n]]
              /\ ev' = [kind |-> "update", clicked |-> None, index |-> None, joins |-> 0, last |-> FALSE, clean |-> FALSE, arg |-> None, stepped |-> TRUE]
       ELSE /\ body_position' = Carried(body_position)
            /\ UNCHANGED <<position, traces>>
            /\ ev' = [kind |-> "update", clicked |-> None, index |-> None, joins |-> 0, last |-> FALSE, clean |-> FALSE, arg |-> None, stepped |-> FALSE]
    /\ appended' = AfterOther(World)
    /\ UNCHANGED <<constructed, crashed, balls, sprites, constraint, joints, space,
                   attached, attached_sprite, grab,
                   current_ball_mass, running, mass, cursor>>

\* The press and release events alone
Next ==
    \/ Construct /\ UNCHANGED clock
    \/ (\E clicked \in Range(balls) \cup {None} : on_mouse_press_left(clicked)) /\ UNCHANGED clock
    \/ on_mouse_press_right /\ UNCHANGED clock
    \/ (\E clicked \in Range(balls) \cup {None} : on_mouse_press_middle(clicked)) /\ UNCHANGED clock
    \/ on_mouse_release /\ UNCHANGED clock

Spec == Init /\ [][Next]_vars

\* one more input event of a run that takes MaxEvents of them
Tick == clock < MaxEvents /\ clock' = clock + 1

\* Every event the view handles, in any order
NextView ==
    \/ Construct /\ UNCHANGED clock
    \/ Tick /\ \E clicked \in Range(balls) \cup {None} : on_mouse_press_left(clicked)
    \/ Tick /\ on_mouse_press_right
    \/ Tick /\ \E clicked \in Range(balls) \cup {None} : on_mouse_press_middle(clicked)
    \/ Tick /\ on_mouse_release
    \/ Tick /\ \E p \in Points : on_mouse_motion(p)
    \/ Tick /\ \E scroll_y \in ScrollY : on_mouse_scroll(scroll_y)
    \/ Tick /\ \E symbol \in Symbols : on_key_release(symbol)
    \/ Tick /\ on_update

SpecView == Init /\ [][NextView]_vars

----------------------------------------------------------------------------
\* Shapes of the chain and of the space used by the properties below

\* some joint in the space connects sprites x and y
Linked(js, sp, x, y) ==
    \E c \in sp : \/ (js[c].a = x /\ js[c].b = y)
                  \/ (js[c].a = y /\ js[c].b = x)

\* every sprite at index i > 0 is joined to the sprite at index i-1
ChainLinked == \A i \in 2..Len(balls) : Linked(joints, space, balls[i-1], balls[i])

\* the endpoint pairs of consecutive chain positions
ChainPairs(bs) == {<<bs[i-1], bs[i]>> : i \in 2..Len(bs)}

\* a last event that removed a ball which had a successor / which was the tail
RemovedInterior(e) == e.kind = "middle" /\ e.clicked # None /\ e.index > 0 /\ ~e.last
RemovedTail(e) == e.kind = "middle" /\ e.clicked # None /\ e.index > 0 /\ e.last

\* C1: whenever no drag is in progress, every sprite at chain index i > 0 has
\* a joint in the space whose two endpoints are the sprites at i-1 and i.
ChainInvariant == attached = None => ChainLinked

\* C1 witness: a drag has been completed on a chain that has seen both an
\* append and a removal, and the chain still has three sprites or more.
ChainInvariantWitness ==
    /\ ev.kind = "release" /\ ev.clicked \notin {None, center_pin}
    /\ ~crashed /\ attached = None
    /\ Len(balls) >= 3
    /\ Cardinality(DOMAIN constraint) > InitialBalls + 1
    /\ Cardinality(sprites) < Cardinality(DOMAIN constraint)

\* C2 (as claimed): N appends to the anchor-only chain give a chain of length
\* N+1 and exactly N joints in the space, the k-th joining indices k-1 and k.
AppendYieldsExactlyNLinks ==
    (appended # None /\ appended >= 1) =>
        /\ Len(balls) = appended + 1
        /\ Cardinality(space) = appended
        /\ \A k \in 1..appended :
              \E c \in space : joints[c] = [a |-> balls[k], b |-> balls[k+1]]

\* C3 (as claimed): removing an interior ball shortens the chain by one, keeps
\* the order of the others, leaves every remaining ball with exactly one joint
\* to an earlier sprite, which is its predecessor, and turns a space holding
\* exactly the chain's joints into a space holding exactly the chain's joints.
InteriorRemovalRelinks ==
    [][RemovedInterior(ev') =>
        /\ Len(balls') = Len(balls) - 1
        /\ balls' = PyRemove(balls, ev'.clicked)
        /\ Linked(joints', space', balls[ev'.index], balls[ev'.index + 2])
        /\ \A i \in 2..Len(balls') :
              Cardinality({c \in space' : balls'[i] \in {joints'[c].a, joints'[c].b}
                                          /\ \E j \in 1..(i-1) : balls'[j] \in {joints'[c].a, joints'[c].b}}) = 1
        /\ (Pairs(joints, space) = ChainPairs(balls)
                => Pairs(joints', space') = ChainPairs(balls'))]_vars

\* C4: a left-press on a ball followed by a release, with no append or removal
\* in between, leaves the chain order and the set of endpoint pairs of the
\* joints in the space as they were at the press.
DragRoundTrip ==
    [][(ev'.kind = "release" /\ ev'.clean /\ ev'.clicked # center_pin) =>
        /\ ~crashed'
        /\ balls' = grab.balls
        /\ Pairs(joints', space') = grab.pairs]_vars

\* C4 witness: a release has ended such a drag of a ball that has a successor,
\* so both of its joints were replaced.
DragRoundTripWitness ==
    /\ ev.kind = "release" /\ ev.clean /\ ev.clicked \notin {None, center_pin}
    /\ ev.joins = 2 /\ ~crashed /\ attached = None

\* C5 (as claimed): no joint in the space, and no joint stored on a sprite of
\* the chain, has a removed sprite as an endpoint.
LinksDieWithEndpoints ==
    /\ \A c \in space : joints[c].a \in sprites /\ joints[c].b \in sprites
    /\ \A n \in Range(balls) :
          constraint[n] # None =>
              joints[constraint[n]].a \in sprites /\ joints[constraint[n]].b \in sprites

\* C6 (as claimed): a middle-click on the last ball of the chain calls
\* join_balls not at all.
TailRemovalNeverBridges == RemovedTail(ev) => ev.joins = 0

\* C7: the chain is never empty, center_pin is at index 0 and nowhere else,
\* and a middle-click on center_pin changes neither the chain nor the joints.
AnchorStaysFirst ==
    /\ [](/\ Len(balls) >= 1
          /\ balls[1] = center_pin
          /\ \A i \in 2..Len(balls) : balls[i] # center_pin)
    /\ [][(ev'.kind = "middle" /\ ev'.clicked = center_pin) =>
            UNCHANGED <<balls, sprites, constraint, joints, space>>]_vars

\* C7 witness: a middle-click has hit center_pin while balls hang on it.
AnchorStaysFirstWitness ==
    /\ ev.kind = "middle" /\ ev.clicked = center_pin /\ ev.index = 0
    /\ Len(balls) >= 2 /\ balls[1] = center_pin

\* C8 (as claimed): center_pin is never the dragged sprite.
AnchorNeverDragged == attached_sprite # center_pin /\ attached # center_pin

\* C9 (as claimed): no handler raises.
NoHandlerFails == ~crashed

\* C10 (as claimed): while a ball at index i is dragged, no joint between the
\* sprites at i-1 and i is in the space.
DraggedBall == attached_sprite # None /\ attached_sprite # center_pin /\ attached_sprite \in Range(balls)

DetachedWhileDragged ==
    DraggedBall =>
        ~Linked(joints, space, PyAt(balls, PyIndex(balls, attached_sprite) - 1), attached_sprite)

\* C10 (amended): a left-press removes no joint; while a ball at index i is
\* dragged the joint between the sprites at i-1 and i stays in the space; the
\* release removes that joint and puts a new one between the same two sprites.
LinkedWhileDragged ==
    /\ [](DraggedBall =>
            \E c \in space : joints[c] = [a |-> PyAt(balls, PyIndex(balls, attached_sprite) - 1),
                                          b |-> attached_sprite])
    /\ [][ev'.kind = "left" => UNCHANGED <<joints, space, constraint>>]_vars
    /\ [][(ev'.kind = "release" /\ DraggedBall) =>
            LET previous_ball == PyAt(balls, PyIndex(balls, attached_sprite) - 1) IN
            /\ ~crashed'
            /\ constraint[previous_ball] \notin space'
            /\ constraint'[previous_ball] \in space' \ space
            /\ joints'[constraint'[previous_ball]] = [a |-> previous_ball, b |-> attached_sprite]]_vars

\* C10 witness: a ball is being dragged (the press has acted, the release has
\* not) and its predecessor has changed since the press.
LinkedWhileDraggedWitness ==
    /\ DraggedBall /\ ~crashed /\ grab.on /\ ~grab.clean
    /\ PyIndex(balls, attached_sprite) # PyIndex(grab.balls, attached_sprite)

\* C11: current_ball_mass is never below 1; a scroll sets it to
\* max(old + scroll_y, 1); a right press gives the new last ball the value
\* current_ball_mass has at the press and leaves that value as it is.
MassClamp ==
    /\ [](current_ball_mass >= 1)
    /\ [][ev'.kind = "scroll" =>
            current_ball_mass' = IF current_ball_mass + ev'.arg > 1
                                 THEN current_ball_mass + ev'.arg ELSE 1]_vars
    /\ [][ev'.kind = "right" =>
            /\ PyAt(balls', -1) \notin DOMAIN mass
            /\ mass'[PyAt(balls', -1)] = current_ball_mass
            /\ current_ball_mass' = current_ball_mass]_vars

\* C11 witness: a scroll below 1 was clamped and a right press has then made
\* a ball of mass 1.
MassClampWitness ==
    /\ ev.kind = "right" /\ current_ball_mass = 1
    /\ mass[PyAt(balls, -1)] = 1 /\ PyAt(balls, -1) > InitialBalls

\* C12: the view starts paused; running changes exactly on the release of the
\* space bar; an update steps the physics engine exactly when running.
PauseToggle ==
    /\ [](ev.kind \in {"init", "create_balls"} => ~running)
    /\ [][(running' # running) <=> (ev'.kind = "key" /\ ev'.arg = "SPACE")]_vars
    /\ [][ev'.kind = "update" => (ev'.stepped <=> running)]_vars

\* C12 witness: an update has stepped the engine after a space release.
PauseToggleWitness == ev.kind = "update" /\ ev.stepped /\ running /\ ~crashed

\* C13: press, motion, update and release leave the chain sequence as it is,
\* and a release joins the dragged ball at index i to the sprite at index i-1
\* and, when there is one, to the sprite at index i+1, wherever the sprites
\* are.
IndexBasedReattach ==
    /\ [][ev'.kind \in {"left", "motion", "update", "release"} => balls' = balls]_vars
    /\ [][(ev'.kind = "release" /\ DraggedBall) =>
            LET i == PyIndex(balls, attached_sprite) + 1 IN
            /\ ~crashed'
            /\ constraint'[balls[i-1]] \in space'
            /\ joints'[constraint'[balls[i-1]]] = [a |-> balls[i-1], b |-> attached_sprite]
            /\ i < Len(balls) =>
                  /\ constraint'[attached_sprite] \in space'
                  /\ joints'[constraint'[attached_sprite]] = [a |-> attached_sprite, b |-> balls[i+1]]]_vars

\* C13 witness: a ball was released at the place of a sprite of the chain
\* that is not its neighbour in the sequence.
IndexBasedReattachWitness ==
    /\ ev.kind = "release" /\ ev.clicked \notin {None, center_pin} /\ ~crashed
    /\ ev.clicked \in Range(balls)
    /\ position[ev.clicked] \in Points
    /\ \E n \in Range(balls) :
          /\ position[n] = position[ev.clicked]
          /\ PyIndex(balls, n) - PyIndex(balls, ev.clicked) \notin {-1, 0, 1}

\* C14 (as claimed): the constraint a sprite stores, when set, is the joint
\* between it and its predecessor in the chain, and center_pin stores none.
LinkOwnedByLater ==
    /\ constraint[center_pin] = None
    /\ \A i \in 1..Len(balls) :
          constraint[balls[i]] # None =>
              /\ i > 1
              /\ joints[constraint[balls[i]]].a = balls[i-1]
              /\ joints[constraint[balls[i]]].b = balls[i]

\* C14 (amended): a joint is stored on the earlier of its two sprites: the
\* constraint a sprite of the chain stores, when set, has that sprite as its
\* first endpoint, and for every sprite that has a successor it is set, is in
\* the space and leads to the successor; center_pin stores the joint to the
\* first ball.
LinkOwnedByEarlier ==
    /\ \A i \in 1..Len(balls) :
          constraint[balls[i]] # None => joints[constraint[balls[i]]].a = balls[i]
    /\ \A i \in 1..(Len(balls) - 1) :
          /\ constraint[balls[i]] \in space
          /\ joints[constraint[balls[i]]] = [a |-> balls[i], b |-> balls[i+1]]

\* C14 witness: a removal has bridged its two neighbours and the chain still
\* has three sprites.
LinkOwnedByEarlierWitness ==
    /\ RemovedInterior(ev) /\ ev.joins = 1 /\ Len(balls) >= 3 /\ ~crashed
    /\ constraint[center_pin] # None

\* C15 (as claimed): a new ball B can be put immediately after a sprite A
\* that has a successor C, with joints A-B and B-C made and the joint A-C
\* destroyed; stated of the one event that adds a ball, the right press.
SpliceInsertion ==
    [][(ev'.kind = "right" /\ Len(balls) >= 2) =>
        \E i \in 1..(Len(balls) - 1) :
            /\ balls' = SubSeq(balls, 1, i) \o <<PyAt(balls', i)>> \o SubSeq(balls, i + 1, Len(balls))
            /\ Linked(joints', space', balls[i], balls'[i+1])
            /\ Linked(joints', space', balls'[i+1], balls[i+1])
            /\ ~Linked(joints', space', balls[i], balls[i+1])]_vars

\* C15 (amended): a ball is only ever added at the end of the chain: an event
\* that lengthens the chain keeps the old chain as a prefix and takes no joint
\* out of the space, and a right press adds exactly one joint, between the
\* old last sprite and the new ball.
AppendOnlyAtTail ==
    /\ [][Len(balls') > Len(balls) =>
            /\ SubSeq(balls', 1, Len(balls)) = balls
            /\ space \subseteq space']_vars
    /\ [][ev'.kind = "right" =>
            /\ Len(balls') = Len(balls) + 1
            /\ PyAt(balls', -1) \notin Range(balls)
            /\ \E c \in space' :
                  /\ space' = space \cup {c} /\ c \notin space
                  /\ joints'[c] = [a |-> PyAt(balls, -1), b |-> PyAt(balls', -1)]]_vars

\* C15 witness: a right press has added a ball to a chain in which the
\* anchor had a successor.
AppendOnlyAtTailWitness ==
    /\ ev.kind = "right" /\ Len(balls) >= 3 /\ ~crashed
    /\ PyAt(balls, -1) = Cardinality(DOMAIN constraint) - 1

\* C16 (as claimed): while a drag is in progress the dragged sprite is in the
\* chain.
DraggedNodeStaysValid == attached_sprite # None => attached_sprite \in Range(balls)

\* C17 (as claimed): a sprite of the chain stores no constraint exactly when
\* it is the last one, and otherwise stores the joint, present in the space,
\* to the sprite at the next index.
SuccessorLinkFlag ==
    \A i \in 1..Len(balls) :
        /\ (constraint[balls[i]] = None) <=> (i = Len(balls))
        /\ i < Len(balls) =>
              /\ constraint[balls[i]] \in space
              /\ joints[constraint[balls[i]]] = [a |-> balls[i], b |-> balls[i+1]]

\* C18: attached and attached_sprite are both None or name the same sprite;
\* a left press that hits nothing leaves them; a release that completes
\* leaves both None; right press, middle press, scroll and key never change
\* them.
DragStatePairing ==
    /\ [](attached = attached_sprite)
    /\ [][(ev'.kind = "left" /\ ev'.clicked = None) =>
            UNCHANGED <<attached, attached_sprite>>]_vars
    /\ [][(ev'.kind = "release" /\ ~crashed') =>
            attached' = None /\ attached_sprite' = None]_vars
    /\ [][ev'.kind \in {"right", "middle", "scroll", "key"} =>
            UNCHANGED <<attached, attached_sprite>>]_vars

\* C18 witness: a release has completed a drag.
DragStatePairingWitness ==
    /\ ev.kind = "release" /\ ev.clicked # None /\ ~crashed
    /\ attached = None /\ attached_sprite = None

\* C19: every trace has TraceLen entries; a physics move drops the first
\* entry, shifts the others and puts the sprite's position last; no other
\* event changes any trace.
TraceBuffer ==
    /\ [](\A n \in DOMAIN traces : Len(traces[n]) = TraceLen)
    /\ [][(ev'.kind = "update" /\ ev'.stepped) =>
            \A n \in sprites \ {center_pin} :
                /\ \A i \in 1..(TraceLen - 1) : traces'[n][i] = traces[n][i+1]
                /\ traces'[n][TraceLen] = position'[n]]_vars
    /\ [][~(ev'.kind = "update" /\ ev'.stepped) =>
            \A n \in DOMAIN traces : traces'[n] = traces[n]]_vars
    /\ [][\A n \in (DOMAIN traces) \ (sprites \ {center_pin}) : traces'[n] = traces[n]]_vars

\* C19 witness: two physics moves have put two different positions at the
\* end of a trace, in the order of the moves, and an append came after.
TraceBufferWitness ==
    /\ ev.kind = "right" /\ ~crashed
    /\ \E n \in DOMAIN traces :
          /\ traces[n][TraceLen - 1] \in Points
          /\ traces[n][TraceLen] \in Points
          /\ traces[n][TraceLen - 1] # traces[n][TraceLen]
          /\ traces[n][1] \notin Points

====
